---- MODULE Spec2Model ----
(***************************************************************************)
(* The income record API of src/server.js: the express router's handlers   *)
(* (POST /records, GET /records, DELETE /records/:id) over the mongoose     *)
(* model IncomeRecord, the error handling middleware, and the statistics   *)
(* handler GET /api/records/stats that the repository keeps in             *)
(* src/README.md.                                                          *)
(*                                                                         *)
(* A handler is asynchronous: it runs to its first store call, and the     *)
(* store executes each call atomically at some later moment.  One action   *)
(* of the model is one store call together with the handler code around    *)
(* it, so the handlers of different requests interleave between their      *)
(* store calls, as they do in the node process.                            *)
(*                                                                         *)
(* The process itself is modelled from the evaluation of server.js         *)
(* (mongoose.connect, app.listen) to the outcome of the connect.           *)
(***************************************************************************)
EXTENDS Integers, Sequences, FiniteSets, TLC

VARIABLES
    collection,   \* the documents of the IncomeRecord collection
    nextId,       \* the next _id the store assigns (ObjectIds are never reused)
    reqs,         \* per request slot: the request being handled and its response
    lastInsert,   \* history: the _id the latest write inserted, 0 if the latest write was a delete
    okDeletes,    \* history: per _id, the number of 204 responses to its deletes
    liveDeletes,  \* history: per _id, the number of deletes in flight while it was stored
    process       \* the node process: how far server.js has run, the mongoose connection,
                  \* the HTTP server

vars == <<collection, nextId, reqs, lastInsert, okDeletes, liveDeletes, process>>

(***************************************************************************)
(* Bounds of the model.                                                    *)
(***************************************************************************)
MaxReqs == 2      \* requests handled concurrently (Spec)
MaxIds == 2       \* documents created in one behaviour of Spec
MaxSeed == 11     \* documents the collection may hold when SpecSeq starts
MaxDate == 2      \* dates are 1..MaxDate

(***************************************************************************)
(* Program constants.                                                      *)
(***************************************************************************)
MaxLength == 100      \* description: maxlength
MinAmount == 0        \* amount: min
DefaultPage == 1      \* req.query.page * 1 || 1
DefaultLimit == 10    \* req.query.limit * 1 || 10
DefaultStatus == 500  \* err.statusCode || 500

Categories == {"Salary", "Freelance", "Investment", "Bonus", "Other"}
DefaultCategory == "Other"

(***************************************************************************)
(* An optional value (a property that may be undefined) is a sequence of   *)
(* length 0 or 1.                                                          *)
(***************************************************************************)
None == <<>>
Some(v) == <<v>>

(***************************************************************************)
(* A description is a string of len visible characters surrounded by pad   *)
(* white space characters.                                                 *)
(***************************************************************************)
Str(pad, len) == [pad |-> pad, len |-> len]
StrLen(str) == str.pad + str.len
Trim(str) == Str(0, str.len)

(***************************************************************************)
(* incomeSchema: the validators of each path.                              *)
(***************************************************************************)
DescriptionRequiredOk(d) == d # None /\ StrLen(d[1]) > 0
DescriptionMaxLengthOk(d) == d = None \/ StrLen(d[1]) <= MaxLength
AmountRequiredOk(a) == a # None
AmountMinOkNoZero(a) == a = None \/ a[1] > MinAmount
AmountMinOk(a) == a = None \/ a[1] >= MinAmount
CategoryEnumOkAny(c) == TRUE
CategoryEnumOk(c) == c = None \/ c[1] \in Categories

\* The setters and defaults mongoose applies when it builds a document.
CategoryDefault(c) == IF c = None THEN Some(DefaultCategory) ELSE c

NewDocument(obj) ==
    [description |-> IF obj.description = None THEN None
                     ELSE Some(Trim(obj.description[1])),
     amount      |-> obj.amount,
     date        |-> obj.date,
     category    |-> CategoryDefault(obj.category)]

\* The paths of a document that fail validation.
ValidationErrors(doc) ==
    (IF DescriptionRequiredOk(doc.description) THEN {} ELSE {"description.required"})
    \cup (IF DescriptionMaxLengthOk(doc.description) THEN {} ELSE {"description.maxlength"})
    \cup (IF AmountRequiredOk(doc.amount) THEN {} ELSE {"amount.required"})
    \cup (IF AmountMinOk(doc.amount) THEN {} ELSE {"amount.min"})
    \cup (IF CategoryEnumOk(doc.category) THEN {} ELSE {"category.enum"})

\* The stored form of a valid document.
Stored(id, doc) ==
    [id          |-> id,
     description |-> doc.description[1].len,
     amount      |-> doc.amount[1],
     date        |-> doc.date[1],
     category    |-> doc.category[1]]

(***************************************************************************)
(* The store (MongoDB behind mongoose).                                    *)
(***************************************************************************)
Min(a, b) == IF a < b THEN a ELSE b
Abs(n) == IF n < 0 THEN 0 - n ELSE n

\* IncomeRecord.find(filter): the filter built from the query string, an AND of
\* an exact match on category and a range condition amount[gte].
Matches(doc, filter) ==
    /\ filter.category = None \/ doc.category = filter.category[1]
    /\ filter.amountGte = None \/ doc.amount >= filter.amountGte[1]

Matching(coll, filter) == {d \in coll : Matches(d, filter)}

\* query.sort(sortBy): "-date" is newest first, "amount" is smallest first. The
\* store leaves the order of documents with equal keys open; tie says whether
\* it returns them in insertion order ("asc") or in its reverse ("desc").
KeyBefore(a, b, sortBy) ==
    CASE sortBy = "-date"   -> a.date > b.date
      [] sortBy = "date"    -> a.date < b.date
      [] sortBy = "amount"  -> a.amount < b.amount
      [] sortBy = "-amount" -> a.amount > b.amount

KeyEqual(a, b, sortBy) == ~KeyBefore(a, b, sortBy) /\ ~KeyBefore(b, a, sortBy)

Before(a, b, sortBy, tie) ==
    \/ KeyBefore(a, b, sortBy)
    \/ /\ KeyEqual(a, b, sortBy)
       /\ IF tie = "asc" THEN a.id < b.id ELSE a.id > b.id

RECURSIVE SortDocs(_, _, _)
SortDocs(docs, sortBy, tie) ==
    IF docs = {} THEN <<>>
    ELSE LET first == CHOOSE d \in docs :
                          \A e \in docs \ {d} : Before(d, e, sortBy, tie)
         IN  <<first>> \o SortDocs(docs \ {first}, sortBy, tie)

\* query.skip(skip).limit(limit) on the sorted cursor. The store takes a
\* negative limit as its absolute value (one batch) and a limit of 0 as no limit.
SkipLimit(sorted, skip, limit) ==
    LET last == IF limit = 0 THEN Len(sorted)
                ELSE Min(Len(sorted), skip + Abs(limit))
    IN  IF skip + 1 > last THEN <<>> ELSE SubSeq(sorted, skip + 1, last)

\* The store refuses a negative skip: the query rejects with a server error.
SkipAccepted(skip) == skip >= 0

\* IncomeRecord.countDocuments(filter)
CountDocuments(coll, filter) == Cardinality(Matching(coll, filter))

\* IncomeRecord.findByIdAndDelete(id): one atomic store command that removes the
\* document and returns it, or returns null.
FindByIdOnly(coll, id) ==
    LET found == {d \in coll : d.id = id}
    IN  [found |-> found, rest |-> coll]

FindByIdAndDelete(coll, id) ==
    LET found == {d \in coll : d.id = id}
    IN  [found |-> found, rest |-> coll \ found]

RECURSIVE SumAmount(_)
SumAmount(docs) ==
    IF docs = {} THEN 0
    ELSE LET d == CHOOSE x \in docs : TRUE
         IN  d.amount + SumAmount(docs \ {d})

\* $round to 2 places of total / count, in hundredths (the store rounds a half
\* to the even neighbour).
RoundedAverage(total, count) ==
    LET n == 100 * total
        q == n \div count
        r == n % count
    IN  IF 2 * r < count THEN q
        ELSE IF 2 * r > count THEN q + 1
        ELSE IF q % 2 = 0 THEN q ELSE q + 1

\* The $group with _id: null, then $project: no output document for an empty
\* collection, one otherwise.
GroupAll(coll) ==
    IF coll = {} THEN <<>>
    ELSE <<[totalAmount |-> SumAmount(coll),
            count       |-> Cardinality(coll),
            average     |-> RoundedAverage(SumAmount(coll), Cardinality(coll))]>>

\* The $group by category: one output document per category present (their
\* order, by total descending, is not represented).
GroupByCategory(coll) ==
    {[category |-> c,
      total    |-> SumAmount({d \in coll : d.category = c}),
      count    |-> Cardinality({d \in coll : d.category = c})]
        : c \in {d.category : d \in coll}}

(***************************************************************************)
(* Requests and responses.  A slot of reqs holds one request from the      *)
(* moment the handler starts until the client has read the response: the  *)
(* response is readable in it while pc is "done".                          *)
(***************************************************************************)
NoBody == [description |-> None, amount |-> None, date |-> None, category |-> None]
NoQuery == [page |-> None, limit |-> None, sort |-> None,
            category |-> None, amountGte |-> None]
NoStats == [totalAmount |-> None, count |-> None, average |-> None]

Idle ==
    [pc         |-> "idle",     \* idle, recv, found, agg, done
     kind       |-> "none",     \* create, list, delete, stats, other
     body       |-> NoBody,     \* req.body of a create
     id         |-> 0,          \* req.params.id of a delete (0: not an ObjectId)
     query      |-> NoQuery,    \* req.query of a list
     skip       |-> 0,          \* what the list handed to query.skip
     limit      |-> 0,          \* what the list handed to query.limit
     tie        |-> "asc",      \* the order the store gave equal sort keys
     status     |-> 0,          \* the response's HTTP status
     error      |-> "",         \* the name of the error passed to next(err)
     records    |-> <<>>,       \* data.record of a create, data.records of a list
     total      |-> 0,          \* total of a list
     stats      |-> NoStats,    \* totalAmount, count, average of the statistics
     categories |-> {},         \* categories of the statistics
     saw        |-> "none"]     \* history: when the delete arrived, its id was stored
                                \* ("live"), deleted before ("gone") or neither

Free(s) == reqs[s].pc = "idle"

(***************************************************************************)
(* The node process.  main is the place of the evaluation of server.js:    *)
(* "start" before mongoose.connect, "connect" between mongoose.connect and *)
(* app.listen, "loop" once the script has run and the event loop delivers  *)
(* callbacks and requests, "exit" after process.exit.  connection is the   *)
(* state of the mongoose connection.  A store call sent while the          *)
(* connection is being established is buffered by mongoose until it is.    *)
(***************************************************************************)
Loaded ==
    [main       |-> "start",         \* start, connect, loop, exit
     connection |-> "disconnected",  \* disconnected, connecting, connected
     listening  |-> FALSE,           \* the HTTP server accepts connections
     early      |-> FALSE]           \* history: a response was sent while the
                                     \* connection was not established

\* The process after a successful start: connected and listening.
Serving == [Loaded EXCEPT !.main = "loop", !.connection = "connected",
                          !.listening = TRUE]

\* A request reaches its handler: the server listens and the event loop runs.
Accepting == process.main = "loop" /\ process.listening

\* The store executes a call: the connection is established.
Connected == process.main = "loop" /\ process.connection = "connected"

\* The error handling middleware: err.statusCode || 500. None of the errors the
\* handlers pass on (mongoose's ValidationError and CastError, the driver's
\* MongoServerError) carries a statusCode.
StatusCodeOf(err) == None
ErrorStatus(err) == IF StatusCodeOf(err) = None THEN DefaultStatus ELSE StatusCodeOf(err)[1]

\* date || new Date(): the clock's reading replaces a missing date and a falsy one.
DateOrNow(date, now) == IF date = None \/ date[1] = 0 THEN Some(now) ELSE date

\* req.query.page * 1 || 1: the default replaces a missing value and a zero.
NumberOr(raw, default) == IF raw = None \/ raw[1] = 0 THEN default ELSE raw[1]

SkipOfPageTimesLimit(page, limit) == page * limit
SkipOf(page, limit) == (page - 1) * limit

\* req.query.sort, or newest first.
SortOfOldestFirst(sort) == IF sort = None THEN "date" ELSE sort[1]
SortOf(sort) == IF sort = None THEN "-date" ELSE sort[1]

\* The query string without page, sort, limit and fields.
FilterOf(query) == [category |-> query.category, amountGte |-> query.amountGte]

StatusAlways204(found) == 204
DeleteStatus(found) == IF found = {} THEN 404 ELSE 204

Bump(f, id) == [f EXCEPT ![id] = IF @ < 3 THEN @ + 1 ELSE @]

(***************************************************************************)
(* router.post('/records')                                                 *)
(***************************************************************************)
PostRecords(s, body, now, idCap) ==
    /\ Free(s)
    /\ Accepting
    /\ Connected
    /\ LET doc == NewDocument([description |-> body.description,
                               amount      |-> body.amount,
                               date        |-> DateOrNow(body.date, now),
                               category    |-> body.category])
           request == [Idle EXCEPT !.kind = "create", !.body = body, !.pc = "done"]
       IN  IF ValidationErrors(doc) = {}
           THEN /\ nextId <= idCap
                /\ collection' = collection \cup {Stored(nextId, doc)}
                /\ nextId' = nextId + 1
                /\ lastInsert' = nextId
                /\ liveDeletes' = [liveDeletes EXCEPT ![nextId] =
                       Cardinality({r \in DOMAIN reqs :
                           reqs[r].pc = "recv" /\ reqs[r].id = nextId})]
                /\ reqs' = [reqs EXCEPT ![s] =
                       [request EXCEPT !.status = 201,
                                       !.records = <<Stored(nextId, doc)>>]]
           ELSE /\ reqs' = [reqs EXCEPT ![s] =
                       [request EXCEPT !.status = ErrorStatus("ValidationError"),
                                       !.error = "ValidationError"]]
                /\ UNCHANGED <<collection, nextId, lastInsert, liveDeletes>>
    /\ UNCHANGED okDeletes
    /\ UNCHANGED process

(***************************************************************************)
(* router.get('/records'): the filter, the sort, the pagination and the    *)
(* find; then the countDocuments and the response.                         *)
(***************************************************************************)
GetRecordsFind(s, query, tie) ==
    /\ Free(s)
    /\ Accepting
    /\ Connected
    /\ LET page == NumberOr(query.page, DefaultPage)
           limit == NumberOr(query.limit, DefaultLimit)
           skip == SkipOf(page, limit)
           sorted == SortDocs(Matching(collection, FilterOf(query)),
                              SortOf(query.sort), tie)
           request == [Idle EXCEPT !.kind = "list", !.query = query, !.tie = tie,
                                   !.skip = skip, !.limit = limit]
       IN  reqs' = [reqs EXCEPT ![s] =
               IF SkipAccepted(skip)
               THEN [request EXCEPT !.pc = "found",
                                    !.records = SkipLimit(sorted, skip, limit)]
               ELSE [request EXCEPT !.pc = "done",
                                    !.status = ErrorStatus("MongoServerError"),
                                    !.error = "MongoServerError"]]
    /\ UNCHANGED <<collection, nextId, lastInsert, okDeletes, liveDeletes>>
    /\ UNCHANGED process

GetRecordsCount(s) ==
    /\ reqs[s].pc = "found"
    /\ Connected
    /\ reqs' = [reqs EXCEPT ![s].pc = "done",
                            ![s].status = 200,
                            ![s].total = CountDocuments(collection, FilterOf(reqs[s].query))]
    /\ UNCHANGED <<collection, nextId, lastInsert, okDeletes, liveDeletes>>
    /\ UNCHANGED process

(***************************************************************************)
(* router.delete('/records/:id'): the handler starts and sends the         *)
(* findByIdAndDelete; the store executes it and the handler responds.      *)
(***************************************************************************)
DeleteRecordsReceive(s, id) ==
    /\ Free(s)
    /\ Accepting
    /\ LET live == \E d \in collection : d.id = id
       IN  /\ reqs' = [reqs EXCEPT ![s] =
                  [Idle EXCEPT !.kind = "delete", !.pc = "recv", !.id = id,
                               !.saw = IF live THEN "live"
                                       ELSE IF id # 0 /\ id < nextId THEN "gone"
                                       ELSE "none"]]
           /\ liveDeletes' = IF live THEN Bump(liveDeletes, id) ELSE liveDeletes
    /\ UNCHANGED <<collection, nextId, lastInsert, okDeletes>>
    /\ UNCHANGED process

DeleteRecordsStore(s) ==
    /\ reqs[s].pc = "recv"
    /\ Connected
    /\ reqs[s].kind = "delete"
    /\ IF reqs[s].id = 0
       THEN /\ reqs' = [reqs EXCEPT ![s].pc = "done",
                                    ![s].status = ErrorStatus("CastError"),
                                    ![s].error = "CastError"]
            /\ UNCHANGED <<collection, okDeletes>>
       ELSE LET result == FindByIdAndDelete(collection, reqs[s].id)
                status == DeleteStatus(result.found)
            IN  /\ collection' = result.rest
                /\ reqs' = [reqs EXCEPT ![s].pc = "done", ![s].status = status]
                /\ okDeletes' = IF status = 204 THEN Bump(okDeletes, reqs[s].id)
                                ELSE okDeletes
    /\ lastInsert' = 0
    /\ UNCHANGED <<nextId, liveDeletes>>
    /\ UNCHANGED process

(***************************************************************************)
(* app.get('/api/records/stats') (src/README.md): the aggregate over the   *)
(* whole collection; then the aggregate by category and the response       *)
(* {...stats[0], categories}.                                              *)
(***************************************************************************)
GetStatsAggregate(s) ==
    /\ Free(s)
    /\ Accepting
    /\ Connected
    /\ LET stats == GroupAll(collection)
       IN  reqs' = [reqs EXCEPT ![s] =
               [Idle EXCEPT !.kind = "stats", !.pc = "agg",
                            !.stats = IF stats = <<>> THEN NoStats
                                      ELSE [totalAmount |-> Some(stats[1].totalAmount),
                                            count       |-> Some(stats[1].count),
                                            average     |-> Some(stats[1].average)]]]
    /\ UNCHANGED <<collection, nextId, lastInsert, okDeletes, liveDeletes>>
    /\ UNCHANGED process

GetStatsCategories(s) ==
    /\ reqs[s].pc = "agg"
    /\ Connected
    /\ reqs' = [reqs EXCEPT ![s].pc = "done",
                            ![s].status = 200,
                            ![s].categories = GroupByCategory(collection)]
    /\ UNCHANGED <<collection, nextId, lastInsert, okDeletes, liveDeletes>>
    /\ UNCHANGED process

(***************************************************************************)
(* The client has read the response: the request is over.                  *)
(***************************************************************************)
Release(s) ==
    /\ reqs[s].pc = "done"
    /\ reqs' = [reqs EXCEPT ![s] = Idle]
    /\ UNCHANGED <<collection, nextId, lastInsert, okDeletes, liveDeletes>>
    /\ UNCHANGED process

(***************************************************************************)
(* app.all('*'): a request no route matches is answered 404 without a      *)
(* store call.                                                             *)
(***************************************************************************)
NotFoundHandler(s) ==
    /\ Free(s)
    /\ Accepting
    /\ reqs' = [reqs EXCEPT ![s] =
           [Idle EXCEPT !.kind = "other", !.pc = "done", !.status = 404]]
    /\ process' = [process EXCEPT !.early = @ \/ process.connection # "connected"]
    /\ UNCHANGED <<collection, nextId, lastInsert, okDeletes, liveDeletes>>

(***************************************************************************)
(* The evaluation of server.js: mongoose.connect starts the connect and    *)
(* returns a promise, app.listen opens the HTTP server.  The promise is    *)
(* settled by the event loop, after the script has run: .then on success,  *)
(* .catch with process.exit(1) on failure.                                 *)
(***************************************************************************)
MongooseConnect ==
    /\ process.main = "start"
    /\ process' = [process EXCEPT !.main = "connect", !.connection = "connecting"]
    /\ UNCHANGED <<collection, nextId, reqs, lastInsert, okDeletes, liveDeletes>>

AppListen ==
    /\ process.main = "connect"
    /\ process' = [process EXCEPT !.main = "loop", !.listening = TRUE]
    /\ UNCHANGED <<collection, nextId, reqs, lastInsert, okDeletes, liveDeletes>>

ConnectResolved ==
    /\ process.main = "loop"
    /\ process.connection = "connecting"
    /\ process' = [process EXCEPT !.connection = "connected"]
    /\ UNCHANGED <<collection, nextId, reqs, lastInsert, okDeletes, liveDeletes>>

ConnectRejected ==
    /\ process.main = "loop"
    /\ process.connection = "connecting"
    /\ process' = [process EXCEPT !.main = "exit", !.connection = "disconnected",
                                  !.listening = FALSE]
    /\ UNCHANGED <<collection, nextId, reqs, lastInsert, okDeletes, liveDeletes>>

(***************************************************************************)
(* The requests the clients send.                                          *)
(***************************************************************************)
Bodies(descriptions, amounts, dates, categories) ==
    [description : descriptions, amount : amounts, date : dates, category : categories]

Queries(pages, limits, sorts, categories, amountGtes) ==
    [page : pages, limit : limits, sort : sorts,
     category : categories, amountGte : amountGtes]

\* Spec: concurrent clients, few different requests.
SpecBodies == Bodies({Some(Str(0, 5))}, {Some(-1), Some(0), Some(1)}, {None}, {None})
SpecQueries == Queries({None, Some(2)}, {None, Some(1)}, {None}, {None}, {None, Some(1)})
SpecClock == {1}
SpecTies == {"asc"}
SpecIds == 0 .. MaxIds

\* SpecSeq: one client that waits for each response, many different requests.
SeqBodies ==
    Bodies({None, Some(Str(0, 0)), Some(Str(2, 0)), Some(Str(1, MaxLength)),
            Some(Str(0, MaxLength + 1))},
           {None, Some(-1), Some(0), Some(1)},
           {None, Some(0), Some(1)},
           {None, Some("Salary"), Some("Gift")})
SeqQueries ==
    Queries({None, Some(-1), Some(0), Some(2)},
            {None, Some(-1), Some(0), Some(1), Some(5)},
            {None, Some("amount")},
            {None, Some("Salary")},
            {None})
SeqClock == {MaxDate}
SeqTies == {"asc", "desc"}
SeqIds == {0, 1, MaxSeed + 1}

AllIds == 1 .. (MaxSeed + MaxIds)

(***************************************************************************)
(* Spec: the router of src/server.js.  The process starts on an empty      *)
(* collection and handles up to MaxReqs requests at a time.                *)
(***************************************************************************)
Slots == 1 .. MaxReqs

Init ==
    /\ collection = {}
    /\ nextId = 1
    /\ reqs = [s \in Slots |-> Idle]
    /\ lastInsert = 0
    /\ okDeletes = [i \in AllIds |-> 0]
    /\ liveDeletes = [i \in AllIds |-> 0]
    /\ process = Serving

Create == \E s \in Slots, body \in SpecBodies, now \in SpecClock :
              PostRecords(s, body, now, MaxIds)
ListFind == \E s \in Slots, query \in SpecQueries, tie \in SpecTies :
                GetRecordsFind(s, query, tie)
ListCount == \E s \in Slots : GetRecordsCount(s)
DeleteReceive == \E s \in Slots, id \in SpecIds : DeleteRecordsReceive(s, id)
DeleteStore == \E s \in Slots : DeleteRecordsStore(s)
Finish == \E s \in Slots : Release(s)

Next ==
    \/ Create
    \/ ListFind
    \/ ListCount
    \/ DeleteReceive
    \/ DeleteStore
    \/ Finish

Spec == Init /\ [][Next]_vars

(***************************************************************************)
(* SpecWrites: the same process with clients that only create and delete,  *)
(* the two requests that change the collection.                            *)
(***************************************************************************)
NextWrites ==
    \/ Create
    \/ DeleteReceive
    \/ DeleteStore
    \/ Finish

SpecWrites == Init /\ [][NextWrites]_vars

(***************************************************************************)
(* SpecSeq: the router together with the statistics handler.  The process  *)
(* starts on a collection an earlier run left behind (MaxSeed documents    *)
(* were created, the last ones deleted again) and serves one client that   *)
(* waits for each response before it sends the next request: while a       *)
(* response is readable in the slot, the collection is the one its store   *)
(* calls saw.                                                              *)
(***************************************************************************)
SeedDoc(i) ==
    [id          |-> i,
     description |-> 5,
     amount      |-> i % 3,
     date        |-> IF i % 6 = 0 THEN 1 ELSE MaxDate,
     category    |-> IF i % 3 = 0 THEN "Salary" ELSE "Other"]

InitSeq ==
    \E n \in 0 .. MaxSeed :
        /\ collection = {SeedDoc(i) : i \in 1 .. n}
        /\ nextId = MaxSeed + 1
        /\ reqs = [s \in {1} |-> Idle]
        /\ lastInsert = 0
        /\ okDeletes = [i \in AllIds |-> IF n < i /\ i <= MaxSeed THEN 1 ELSE 0]
        /\ liveDeletes = [i \in AllIds |-> IF n < i /\ i <= MaxSeed THEN 1 ELSE 0]
        /\ process = Serving

SeqCreate == \E body \in SeqBodies, now \in SeqClock :
                 PostRecords(1, body, now, MaxSeed + 1)
SeqListFind == \E query \in SeqQueries, tie \in SeqTies : GetRecordsFind(1, query, tie)
SeqListCount == GetRecordsCount(1)
SeqDeleteReceive == \E id \in SeqIds : DeleteRecordsReceive(1, id)
SeqDeleteStore == DeleteRecordsStore(1)
SeqStatsAggregate == GetStatsAggregate(1)
SeqStatsCategories == GetStatsCategories(1)
SeqFinish == Release(1)

NextSeq ==
    \/ SeqCreate
    \/ SeqListFind
    \/ SeqListCount
    \/ SeqDeleteReceive
    \/ SeqDeleteStore
    \/ SeqStatsAggregate
    \/ SeqStatsCategories
    \/ SeqFinish

SpecSeq == InitSeq /\ [][NextSeq]_vars

(***************************************************************************)
(* SpecStartup: the process from the first line of server.js, on an empty  *)
(* collection, with clients that create, delete and ask for paths the      *)
(* router does not have.                                                   *)
(***************************************************************************)
InitStartup ==
    /\ collection = {}
    /\ nextId = 1
    /\ reqs = [s \in Slots |-> Idle]
    /\ lastInsert = 0
    /\ okDeletes = [i \in AllIds |-> 0]
    /\ liveDeletes = [i \in AllIds |-> 0]
    /\ process = Loaded

NotFound == \E s \in Slots : NotFoundHandler(s)

NextStartup ==
    \/ MongooseConnect
    \/ AppListen
    \/ ConnectResolved
    \/ ConnectRejected
    \/ NotFound
    \/ Create
    \/ DeleteReceive
    \/ DeleteStore
    \/ Finish

SpecStartup == InitStartup /\ [][NextStartup]_vars

(***************************************************************************)
(* Properties.                                                             *)
(***************************************************************************)
Stores(id) == \E d \in collection : d.id = id
Deletes == {s \in DOMAIN reqs : reqs[s].kind = "delete" /\ reqs[s].pc = "done"
                                 /\ reqs[s].id # 0}
Lists == {s \in DOMAIN reqs : reqs[s].kind = "list" /\ reqs[s].pc = "done"
                               /\ reqs[s].status = 200}

\* C2: of the deletes of a stored record's id, the first responds 204 and removes
\* the record, and every later one responds 404: no id collects a second 204, an
\* id that was handed out is gone from the collection exactly when one delete of
\* it responded 204, and a delete that arrives after the record is gone responds
\* 404.
DeleteSucceedsOnce ==
    /\ \A id \in AllIds : okDeletes[id] <= 1
    /\ \A id \in 1 .. (nextId - 1) : (okDeletes[id] = 1) <=> ~Stores(id)
    /\ \A s \in Deletes :
        /\ reqs[s].status \in {204, 404}
        /\ reqs[s].saw = "gone" => reqs[s].status = 404
        /\ reqs[s].status = 204 => ~Stores(reqs[s].id)

\* A delete of an id whose record an earlier delete removed has responded 404.
SecondDeleteNotFound ==
    \E s \in Deletes :
        /\ reqs[s].status = 404
        /\ reqs[s].saw = "gone"
        /\ okDeletes[reqs[s].id] = 1

\* C3: when exactly two deletes of one id were in flight while its record was
\* stored, both arrived while it was stored (so both were in flight before the
\* store ran either) and both have responded, one responded 204 and the other
\* 404.
ConcurrentDeletesOneWinner ==
    \A s, t \in Deletes :
        (/\ s # t
         /\ reqs[s].id = reqs[t].id
         /\ reqs[s].saw = "live" /\ reqs[t].saw = "live"
         /\ liveDeletes[reqs[s].id] = 2)
        => {reqs[s].status, reqs[t].status} = {204, 404}

\* Two deletes of one id that were in flight together have both responded.
ConcurrentDeletesDone ==
    \E s, t \in Deletes :
        /\ s # t
        /\ reqs[s].id = reqs[t].id
        /\ reqs[s].saw = "live" /\ reqs[t].saw = "live"
        /\ liveDeletes[reqs[s].id] = 2
        /\ reqs[s].status = 204 /\ reqs[t].status = 404

\* C8: in every list response (requests of other clients interleaving with it),
\* results, the number of records returned, is at most limit and at most total.
ListResultsWithinTotal ==
    \A s \in Lists :
        /\ Len(reqs[s].records) <= reqs[s].limit
        /\ Len(reqs[s].records) <= reqs[s].total

\* The request of the one client of SpecSeq.
Req == reqs[1]
Created == Req.kind = "create" /\ Req.pc = "done"
Listed == Req.kind = "list" /\ Req.pc = "done" /\ Req.status = 200

\* The number of places of a list response that hold the record with this id.
Occurrences(records, id) == Cardinality({i \in 1 .. Len(records) : records[i].id = id})

\* The record the latest write inserted.
Inserted == CHOOSE d \in collection : d.id = lastInsert

\* The records other than d whose date is not earlier than d's.
NotOlder(d) == {e \in collection : e.id # d.id /\ e.date >= d.date}

OtherwiseValid(body) ==
    /\ body.description # None
    /\ body.description[1].len >= 1
    /\ body.description[1].len <= MaxLength
    /\ body.category = None \/ body.category[1] \in Categories

\* C4: a create with a negative amount responds with a validation failure and
\* leaves the collection as it was; a create with amount 0 and otherwise valid
\* fields responds 201 and its record, with amount 0, is in the collection.
NegativeAmountRejected ==
    [][(reqs'[1].kind = "create" /\ reqs'[1].pc = "done" /\ Req.pc = "idle")
        => LET body == reqs'[1].body
           IN  /\ (body.amount # None /\ body.amount[1] < 0)
                   => /\ reqs'[1].error = "ValidationError"
                      /\ reqs'[1].status # 201
                      /\ collection' = collection
               /\ (body.amount = Some(0) /\ OtherwiseValid(body))
                   => /\ reqs'[1].status = 201
                      /\ reqs'[1].error = ""
                      /\ \E d \in collection' \ collection :
                             /\ d.amount = 0
                             /\ collection' = collection \cup {d}
                             /\ reqs'[1].records = <<d>>]_vars

\* A create with amount 0 has stored its record.
ZeroAmountStored ==
    /\ Created
    /\ Req.body.amount = Some(0)
    /\ Req.status = 201
    /\ \E d \in collection : d.id = lastInsert /\ d.amount = 0 /\ Req.records = <<d>>

\* C5: a create that failed validation responds with status 400.
ValidationFailureIs400 ==
    (Created /\ Req.error = "ValidationError") => Req.status = 400

AskedPage == IF Req.query.page = None THEN DefaultPage ELSE Req.query.page[1]
AskedLimit == IF Req.query.limit = None THEN DefaultLimit ELSE Req.query.limit[1]

\* The records that match the list's filter, and the place of one of them in
\* their sorted order (place 1 is the first).
Matched == Matching(collection, FilterOf(Req.query))
Place(d) ==
    1 + Cardinality({e \in Matched :
                        Before(e, d, SortOf(Req.query.sort), Req.tie)})

\* C7: a list with page p >= 1 and limit l >= 1 returns the records at places
\* (p-1)*l+1 to p*l of the filtered and sorted set, cut at its end; page 2 with
\* limit 5 returns places 6 to 10 when at least 10 records match and nothing
\* when fewer than 6 match.
PageIsSlice ==
    (Listed /\ AskedPage >= 1 /\ AskedLimit >= 1)
        => LET first == (AskedPage - 1) * AskedLimit + 1
               last == Min(AskedPage * AskedLimit, Cardinality(Matched))
           IN  /\ Len(Req.records) = IF last < first THEN 0 ELSE last - first + 1
               /\ \A i \in 1 .. Len(Req.records) :
                      /\ Req.records[i] \in Matched
                      /\ Place(Req.records[i]) = first + i - 1
               /\ (AskedPage = 2 /\ AskedLimit = 5 /\ Cardinality(Matched) >= 10)
                      => /\ Len(Req.records) = 5
                         /\ \A i \in 1 .. 5 : Place(Req.records[i]) = 5 + i
               /\ (AskedPage = 2 /\ AskedLimit = 5 /\ Cardinality(Matched) < 6)
                      => Req.records = <<>>

\* A list of page 2 with limit 5 over at least 10 matching records has returned
\* 5 of them.
SecondPageOfFive ==
    /\ Listed
    /\ Req.query.page = Some(2) /\ Req.query.limit = Some(5)
    /\ Cardinality(Matched) >= 10
    /\ Len(Req.records) = 5

\* C9: a list whose page or limit is below 1 hands the store no negative skip
\* and no limit below 1, and responds 200 or 400, never 500.
PageOrLimitBelowOne ==
    (Req.kind = "list" /\ Req.pc \in {"found", "done"}
        /\ (AskedPage < 1 \/ AskedLimit < 1))
        => /\ Req.skip >= 0
           /\ Req.limit >= 1
           /\ Req.pc = "done" => Req.status \in {200, 400}

\* C10: the statistics hold count, the number of records in the collection, and
\* totalAmount, the sum of their amounts; both are there, and 0, when the
\* collection is empty.
StatsCountAndTotal ==
    (Req.kind = "stats" /\ Req.pc \in {"agg", "done"})
        => /\ Req.stats.count = Some(Cardinality(collection))
           /\ Req.stats.totalAmount = Some(SumAmount(collection))

\* C11: at startup the process never accepts or serves a request before the store
\* connection is established: the server listens only once the connect has
\* succeeded, no request is in a handler and no response has been sent while the
\* connection is not established, and a failed connect ends the process without a
\* request having been served.
NoRequestBeforeConnected ==
    /\ process.listening => process.connection = "connected"
    /\ process.connection # "connected" =>
           \A s \in DOMAIN reqs : reqs[s].pc = "idle"
    /\ ~process.early

====
